---- MODULE Spec2Model ----
(***************************************************************************)
(* Model of redact_extract.py: clustering of word boxes into lines         *)
(* (group_words_into_lines), synthesis of a line's text and geometry       *)
(* (build_line_text), the per-page extraction loop                         *)
(* (extract_lines_with_positions) and the two renderers                    *)
(* (make_side_by_side, make_overlay_white).                                *)
(*                                                                         *)
(* Numbers.  The program computes on floats; the model computes on exact   *)
(* integers and rationals.  Vertical quantities (top, bottom, line_tol)    *)
(* are whole points.  Horizontal quantities (x0, x1, space_unit_pts, gap)  *)
(* are half points, so 0.5 pt is 1, 3.0 pt is 6, a gap of -1.5 pt is -3.   *)
(* The two kinds never meet in one expression of the program.  The         *)
(* running mean of a cluster is the exact rational sum / count, kept as    *)
(* its numerator (the sum); the count is the length of the cluster.        *)
(***************************************************************************)
EXTENDS Integers, Sequences, FiniteSets

VARIABLES
    pc,             \* position of the modelled call or run
    words,          \* the word boxes handed to the function under study
    line_tol,       \* parameter line_tol
    space_unit_pts, \* parameter space_unit_pts (half points)
    min_spaces,     \* parameter min_spaces
    lines,          \* result of group_words_into_lines
    built,          \* result of build_line_text, with its parts list
    out,            \* one page's output list of extract_lines_with_positions
    mode,           \* "side_by_side" or "overlay_white"
    pages,          \* the document: one word list per page
    handles,        \* state of the document handles src, out, pdf
    pages_lines,    \* extract_lines_with_positions: pages_lines
    log             \* stages completed so far, as <<stage, page index>>

vars == <<pc, words, line_tol, space_unit_pts, min_spaces, lines, built, out,
          mode, pages, handles, pages_lines, log>>

(***************************************************************************)
(* Bounds of the model.                                                    *)
(***************************************************************************)
MaxWords == 3       \* words on a page (clustering) or in a line (synthesis)
MaxTop == 3         \* largest top coordinate drawn for clustering, in points
MaxTol == 3         \* largest line_tol drawn, in points
MaxMinSpaces == 2   \* largest min_spaces drawn
MaxPages == 2       \* pages of the document in a run

Abs(n) == IF n < 0 THEN -n ELSE n
Max(a, b) == IF a >= b THEN a ELSE b
Range(s) == {s[i] : i \in 1..Len(s)}

\* number of positions of s that hold e
Count(s, e) == Cardinality({i \in 1..Len(s) : s[i] = e})

RECURSIVE Flatten(_)
Flatten(ss) == IF ss = <<>> THEN <<>> ELSE Head(ss) \o Flatten(Tail(ss))

\* all sequences over S of length 0..n
SeqUpTo(S, n) == UNION {[1..k -> S] : k \in 0..n}

\* a word box: text is a sequence of characters; bottom and size are
\* optional, <<>> when the key is absent and <<v>> when it holds v
Word(t, a, b, tp, bt, sz) ==
    [text |-> t, x0 |-> a, x1 |-> b, top |-> tp, bottom |-> bt, size |-> sz]

(***************************************************************************)
(* sorted(seq, key=...): Python's sort is stable.  keys[i] is the key of   *)
(* s[i], a tuple of integers compared as Python compares tuples.  The      *)
(* element at position i moves behind every element with a smaller key     *)
(* and behind the elements of equal key that stood before it.              *)
(***************************************************************************)
TupleLess(a, b) ==
    \E k \in 1..Len(a) : a[k] < b[k] /\ \A j \in 1..(k - 1) : a[j] = b[j]

StableSort(s, keys) ==
    LET n == Len(s)
        rank(i) == 1 + Cardinality({j \in 1..n :
                        \/ TupleLess(keys[j], keys[i])
                        \/ (keys[j] = keys[i] /\ j < i)})
    IN  [k \in 1..n |-> s[CHOOSE i \in 1..n : rank(i) = k]]

\* line 17: key (top, x0)
SortByTopX0(ws) == StableSort(ws, [i \in 1..Len(ws) |-> <<ws[i].top, ws[i].x0>>])

\* line 58: key x0
SortByX0(ws) == StableSort(ws, [i \in 1..Len(ws) |-> <<ws[i].x0>>])

(***************************************************************************)
(* group_words_into_lines                                                  *)
(***************************************************************************)
SameLineTwiceTol(top, cur_sum, cur_len, tol) ==
    Abs(top * cur_len - cur_sum) <= 2 * tol * cur_len

SameLineFlipped(top, cur_sum, cur_len, tol) ==
    Abs(top * cur_len - cur_sum) >= tol * cur_len

\* line 32: abs(top - current_top) <= line_tol, with current_top the exact
\* rational cur_sum / cur_len
SameLine(top, cur_sum, cur_len, tol) ==
    Abs(top * cur_len - cur_sum) <= tol * cur_len

CloseFinalDropped(ls, current) == ls

\* lines 42-43: the open cluster is appended when it is not empty
CloseFinal(ls, current) ==
    IF current # <<>> THEN Append(ls, current) ELSE ls

\* lines 23-40: the loop over the sorted words; st is the loop state
\* (lines, current, the sum of the tops of current)
RECURSIVE GroupLoop(_, _, _)
GroupLoop(ws, tol, st) ==
    IF ws = <<>> THEN st
    ELSE LET w == Head(ws)
             top == w.top
         IN  IF st.current = <<>>
             THEN \* lines 25-28: current_top is None
                  GroupLoop(Tail(ws), tol,
                      [lines |-> st.lines, current |-> <<w>>, cur_sum |-> top])
             ELSE IF SameLine(top, st.cur_sum, Len(st.current), tol)
             THEN \* lines 33-36: the running mean over the grown cluster
                  GroupLoop(Tail(ws), tol,
                      [lines |-> st.lines,
                       current |-> Append(st.current, w),
                       cur_sum |-> st.cur_sum + top])
             ELSE \* lines 38-40
                  GroupLoop(Tail(ws), tol,
                      [lines |-> Append(st.lines, st.current),
                       current |-> <<w>>, cur_sum |-> top])

\* lines 7-45
group_words_into_lines(ws, tol) ==
    IF ws = <<>> THEN <<>>
    ELSE LET st == GroupLoop(SortByTopX0(ws), tol,
                       [lines |-> <<>>, current |-> <<>>, cur_sum |-> 0])
         IN  CloseFinal(st.lines, st.current)

(***************************************************************************)
(* build_line_text                                                         *)
(***************************************************************************)
HalfPoint == 1        \* the 0.5 of line 109, in half points
MinHeight == 6        \* the 6.0 of line 81
DefaultHeight == 10   \* the 10.0 of line 80
DefaultFontSize == 10 \* the 10.0 of line 83
ThreshNum == 3        \* the 0.3 of line 115 is ThreshNum / ThreshDen
ThreshDen == 10

DefaultSpaceUnit == 6   \* space_unit_pts=3.0 of line 48, in half points
DefaultMinSpaces == 1   \* min_spaces=1 of line 48

\* sorted(...) of a list of numbers
SortInts(s) == StableSort(s, [i \in 1..Len(s) |-> <<s[i]>>])

MiddleLower(s) == s[((Len(s) - 1) \div 2) + 1]

\* lines 73, 83, 87: seq[len(seq) // 2] of a sorted list (0-based index)
Middle(s) == s[(Len(s) \div 2) + 1]

\* lines 62-69: the sizes of the words that carry one, in line order
RECURSIVE SizesOf(_)
SizesOf(ws) ==
    IF ws = <<>> THEN <<>>
    ELSE Head(ws).size \o SizesOf(Tail(ws))

WordHeightUnfloored(w) ==
    (IF w.bottom = <<>> THEN w.top + DefaultHeight ELSE w.bottom[1]) - w.top

\* lines 79-81: max(6.0, bottom - top), bottom defaulting to top + 10.0
WordHeight(w) ==
    LET bottom == IF w.bottom = <<>> THEN w.top + DefaultHeight ELSE w.bottom[1]
    IN  Max(MinHeight, bottom - w.top)

\* lines 62-83
FontSize(ws) ==
    LET sizes == SizesOf(ws)
    IN  IF sizes # <<>>
        THEN Middle(SortInts(sizes))
        ELSE LET hs == SortInts([i \in 1..Len(ws) |-> WordHeight(ws[i])])
             IN  IF hs # <<>> THEN Middle(hs) ELSE DefaultFontSize

\* line 87
TopMed(ws) == Middle(SortInts([i \in 1..Len(ws) |-> ws[i].top]))

\* round(p / q) for q > 0, p >= 0: Python rounds a tie to the even integer
RoundHalfEven(p, q) ==
    LET f == p \div q
        r2 == 2 * (p % q)
    IN  IF r2 < q THEN f
        ELSE IF r2 > q THEN f + 1
        ELSE IF f % 2 = 0 THEN f ELSE f + 1

Spaces(n) == [i \in 1..n |-> " "]

NSpacesNoFloor(gap, su, ms) == RoundHalfEven(gap, Max(HalfPoint, su))

\* lines 109-110
NSpaces(gap, su, ms) == Max(ms, RoundHalfEven(gap, Max(HalfPoint, su)))

\* lines 106-115: the separator put before a word; " " * n is "" for n <= 0
Separator(gap, su, ms) ==
    IF gap > 0
    THEN Spaces(NSpaces(gap, su, ms))
    ELSE IF gap * ThreshDen > (0 - su) * ThreshNum THEN <<" ">> ELSE <<>>

RightEdgeOfLast(prev_x1, x1) == x1

\* line 118: prev_x1 = max(prev_x1, x1)
RightEdge(prev_x1, x1) == Max(prev_x1, x1)

\* lines 97-119: the loop over line_words[1:]; st is (parts, prev_x1, last_x1)
RECURSIVE TextLoop(_, _, _, _)
TextLoop(ws, su, ms, st) ==
    IF ws = <<>> THEN st
    ELSE LET w == Head(ws)
             gap == w.x0 - st.prev_x1
         IN  TextLoop(Tail(ws), su, ms,
                 [parts |-> st.parts \o <<Separator(gap, su, ms), w.text>>,
                  prev_x1 |-> RightEdge(st.prev_x1, w.x1),
                  last_x1 |-> Max(st.last_x1, w.x1)])

\* lines 48-121; the result keeps the parts list beside the joined text
build_line_text(line_words, su, ms) ==
    LET ws == SortByX0(line_words)
        st == TextLoop(Tail(ws), su, ms,
                  [parts |-> <<ws[1].text>>, prev_x1 |-> ws[1].x1,
                   last_x1 |-> ws[1].x1])
    IN  [parts |-> st.parts, text |-> Flatten(st.parts), x0 |-> ws[1].x0,
         x1 |-> st.last_x1, top |-> TopMed(ws), font_size |-> FontSize(ws)]

\* the variables a specification does not use
NoBuilt == [parts |-> <<>>, text |-> <<>>, x0 |-> 0, x1 |-> 0, top |-> 0, font_size |-> 0]
NoHandles == [src |-> "none", out |-> "none", pdf |-> "none"]

Idle ==
    /\ line_tol = 0 /\ space_unit_pts = 0 /\ min_spaces = 0
    /\ lines = <<>> /\ built = NoBuilt /\ out = <<>>
    /\ mode = "none" /\ pages = <<>> /\ handles = NoHandles
    /\ pages_lines = <<>> /\ log = <<>>

(***************************************************************************)
(* Synthesis of one line: a call of build_line_text on a non-empty cluster *)
(* in any order, with any space unit and any minimum number of spaces.     *)
(***************************************************************************)
\* space_unit_pts of 0, 0.5, 1.0 and 3.0 points (the default), in half points
SpaceUnits == {0, 1, 2, 6}
MinSpaces == 0..MaxMinSpaces

\* x coordinates of 0 to 1.5 points, in half points
XCoords == 0..3

\* word boxes with x0 <= x1
LineWords ==
    {Word(<<"a">>, x[1], x[2], 0, <<10>>, <<>>) :
        x \in {y \in XCoords \X XCoords : y[1] <= y[2]}}

InitLine ==
    /\ pc = "start"
    /\ words \in SeqUpTo(LineWords, MaxWords) \ {<<>>}
    /\ Idle

BuildLine ==
    /\ pc = "start"
    /\ \E su \in SpaceUnits, ms \in MinSpaces :
          /\ space_unit_pts' = su
          /\ min_spaces' = ms
          /\ built' = build_line_text(words, su, ms)
    /\ pc' = "built"
    /\ UNCHANGED <<words, line_tol, lines, out, mode, pages, handles,
                   pages_lines, log>>

SpecLine == InitLine /\ [][BuildLine]_vars

\* the gap of the word at position i >= 2 of the x0-sorted line s: its x0
\* minus the largest x1 among the words before it
GapAt(s, i) ==
    LET before == {s[j].x1 : j \in 1..(i - 1)}
    IN  s[i].x0 - (CHOOSE m \in before : \A x \in before : x <= m)

IsSpaces(part) == \A k \in 1..Len(part) : part[k] = " "

\* C3: a word whose gap to the running right edge is positive is preceded
\* by at least min_spaces spaces (and by spaces only).
SpacingFloor ==
    pc = "built" =>
        LET s == SortByX0(words)
        IN  /\ Len(built.parts) = 2 * Len(s) - 1
            /\ \A i \in 2..Len(s) :
                  GapAt(s, i) > 0 =>
                      /\ IsSpaces(built.parts[2 * i - 2])
                      /\ Len(built.parts[2 * i - 2]) >= min_spaces
                      /\ built.parts[2 * i - 1] = s[i].text

\* a positive gap that rounds to fewer spaces than min_spaces, so that the
\* floor decides: exactly min_spaces spaces are inserted
SpacingFloorWitness ==
    /\ pc = "built"
    /\ min_spaces = 2
    /\ Len(words) >= 2
    /\ LET s == SortByX0(words)
       IN  /\ GapAt(s, 2) > 0
           /\ RoundHalfEven(GapAt(s, 2), Max(HalfPoint, space_unit_pts)) < 2
           /\ built.parts[2] = <<" ", " ">>

\* C8: the gap is taken against the largest x1 of all earlier words; a gap
\* <= 0 puts exactly one space before the word when gap > -0.3 *
\* space_unit_pts and none otherwise, whatever min_spaces is.
NonPositiveGapSpacing ==
    pc = "built" =>
        LET s == SortByX0(words)
        IN  \A i \in 2..Len(s) :
              GapAt(s, i) <= 0 =>
                  built.parts[2 * i - 2] =
                      IF 10 * GapAt(s, i) > (0 - 3) * space_unit_pts
                      THEN <<" ">> ELSE <<>>

\* space_unit_pts 3.0 (6 half points), min_spaces 2, three words: the second
\* overlaps the first by 1.5 pt and gets no space; the third starts 0.5 pt
\* left of the first word's right edge, though right of the second word's,
\* and gets one space
NonPositiveGapSpacingWitness ==
    /\ pc = "built"
    /\ space_unit_pts = 6
    /\ min_spaces = 2
    /\ Len(words) = 3
    /\ LET s == SortByX0(words)
       IN  /\ GapAt(s, 2) = 0 - 3
           /\ GapAt(s, 3) = 0 - 1
           /\ s[3].x0 > s[2].x1
           /\ built.parts[2] = <<>>
           /\ built.parts[4] = <<" ">>

(***************************************************************************)
(* Font size and representative top of one line: a call of                 *)
(* build_line_text with its default space unit and minimum, on a cluster   *)
(* whose words differ in top, bottom and size.                             *)
(***************************************************************************)
\* words with or without a font size (10, 12 or 14)
SizedWords ==
    {Word(<<"a">>, 0, 1, t, <<t + 10>>, sz) :
        t \in 0..1, sz \in {<<>>, <<10>>, <<12>>, <<14>>}}

\* words without a font size, 4 to 8 points high or without a bottom
UnsizedWords ==
    {Word(<<"a">>, 0, 1, t[1], t[2], <<>>) :
        t \in UNION {{<<tp, <<>> >>} \cup {<<tp, <<tp + h>> >> : h \in 4..8} :
                        tp \in 0..1}}

InitFont ==
    /\ pc = "start"
    /\ words \in (SeqUpTo(SizedWords, MaxWords) \cup SeqUpTo(UnsizedWords, MaxWords))
                    \ {<<>>}
    /\ Idle

BuildLineDefault ==
    /\ pc = "start"
    /\ space_unit_pts' = DefaultSpaceUnit
    /\ min_spaces' = DefaultMinSpaces
    /\ built' = build_line_text(words, DefaultSpaceUnit, DefaultMinSpaces)
    /\ pc' = "built"
    /\ UNCHANGED <<words, line_tol, lines, out, mode, pages, handles,
                   pages_lines, log>>

SpecFont == InitFont /\ [][BuildLineDefault]_vars

\* the k-th smallest value (1-based) of a non-empty sequence of numbers
KthSmallest(s, k) ==
    CHOOSE v \in Range(s) :
        /\ Cardinality({i \in 1..Len(s) : s[i] < v}) < k
        /\ k <= Cardinality({i \in 1..Len(s) : s[i] <= v})

TopsOf(ws) == [i \in 1..Len(ws) |-> ws[i].top]

\* bottom - top, a missing bottom standing at top + 10.0
RawHeights(ws) ==
    [i \in 1..Len(ws) |->
        (IF ws[i].bottom = <<>> THEN ws[i].top + 10 ELSE ws[i].bottom[1])
            - ws[i].top]

\* C4: when no word carries a size, the font size is the median height
\* (the element at index len // 2 of the sorted heights) floored at 6.
FontSizeFallback ==
    (pc = "built" /\ SizesOf(words) = <<>>) =>
        built.font_size =
            Max(6, KthSmallest(RawHeights(words), (Len(words) \div 2) + 1))

\* three unsized words whose median height is below 6 and one of which is
\* higher than 6: the font size is the floor
FontSizeFallbackWitness ==
    /\ pc = "built"
    /\ SizesOf(words) = <<>>
    /\ Len(words) = 3
    /\ KthSmallest(RawHeights(words), 2) = 5
    /\ \E i \in 1..3 : RawHeights(words)[i] = 7
    /\ built.font_size = 6

\* C9 as stated: the median is the lower middle, the (n/2)-th smallest
\* value for even n and the middle value for odd n.
MedianIsLowerMiddle ==
    pc = "built" =>
        /\ built.top = KthSmallest(TopsOf(words), (Len(words) + 1) \div 2)
        /\ SizesOf(words) # <<>> =>
              built.font_size =
                  KthSmallest(SizesOf(words), (Len(SizesOf(words)) + 1) \div 2)

\* C9 amended: the median is the upper middle, the (n/2 + 1)-th smallest
\* value for even n (the larger of two) and the middle value for odd n.
MedianIsUpperMiddle ==
    pc = "built" =>
        /\ built.top = KthSmallest(TopsOf(words), (Len(words) \div 2) + 1)
        /\ SizesOf(words) # <<>> =>
              built.font_size =
                  KthSmallest(SizesOf(words), (Len(SizesOf(words)) \div 2) + 1)

\* two words of sizes 10 and 14 and tops 0 and 1: size 14 and top 1
MedianIsUpperMiddleWitness ==
    /\ pc = "built"
    /\ Len(words) = 2
    /\ Range(SizesOf(words)) = {10, 14}
    /\ Range(TopsOf(words)) = {0, 1}
    /\ built.font_size = 14
    /\ built.top = 1

(***************************************************************************)
(* extract_lines_with_positions, one page                                  *)
(***************************************************************************)
Whitespace == {" ", "\t", "\n", "\r"}

RECURSIVE LStrip(_)
LStrip(t) ==
    IF t # <<>> /\ Head(t) \in Whitespace THEN LStrip(Tail(t)) ELSE t

RECURSIVE RStrip(_)
RStrip(t) ==
    IF t # <<>> /\ t[Len(t)] \in Whitespace
    THEN RStrip(SubSeq(t, 1, Len(t) - 1)) ELSE t

StripNothing(t) == t

\* str.strip()
Strip(t) == RStrip(LStrip(t))

\* lines 148-155: the loop over the clusters of a page
RECURSIVE PageLoop(_, _, _)
PageLoop(ls, su, ms) ==
    IF ls = <<>> THEN <<>>
    ELSE LET b == build_line_text(Head(ls), su, ms)
             rest == PageLoop(Tail(ls), su, ms)
         IN  IF Strip(b.text) # <<>>
             THEN <<[text |-> b.text, x0 |-> b.x0, top |-> b.top,
                     font_size |-> b.font_size]>> \o rest
             ELSE rest

\* lines 146-155: clustering, then synthesis and filtering of every cluster
PageLines(ws, tol, su, ms) == PageLoop(group_words_into_lines(ws, tol), su, ms)

(***************************************************************************)
(* Clustering of one page's words: the body of the page loop of            *)
(* extract_lines_with_positions, with the default space unit and minimum,  *)
(* on a word list in any order, with any tolerance.                        *)
(***************************************************************************)
Tolerances == (0 - 1)..MaxTol

ClusterWords ==
    {Word(<<"a">>, x, x + 1, t, <<t + 10>>, <<>>) : x \in 0..1, t \in 0..MaxTop}

InitCluster ==
    /\ pc = "start"
    /\ words \in SeqUpTo(ClusterWords, MaxWords)
    /\ Idle

GroupWords ==
    /\ pc = "start"
    /\ \E tol \in Tolerances :
          /\ line_tol' = tol
          /\ lines' = group_words_into_lines(words, tol)
          /\ out' = PageLines(words, tol, DefaultSpaceUnit, DefaultMinSpaces)
    /\ space_unit_pts' = DefaultSpaceUnit
    /\ min_spaces' = DefaultMinSpaces
    /\ pc' = "grouped"
    /\ UNCHANGED <<words, built, mode, pages, handles, pages_lines, log>>

SpecCluster == InitCluster /\ [][GroupWords]_vars

\* C1: the clusters, taken together, hold each input word exactly as often
\* as the input does (none dropped, none duplicated), and an empty input
\* yields zero clusters.
ClusteringCoverage ==
    pc = "grouped" =>
        /\ Len(Flatten(lines)) = Len(words)
        /\ \A w \in Range(words) : Count(Flatten(lines), w) = Count(words, w)
        /\ (words = <<>> => lines = <<>>)

\* a page of three words, two of them equal, split into two clusters
ClusteringCoverageWitness ==
    /\ pc = "grouped"
    /\ Len(words) = 3
    /\ Len(lines) = 2
    /\ \E i, j \in 1..3 : i # j /\ words[i] = words[j]

\* C2: a tolerance that is no larger than the one used never yields fewer
\* clusters for the same words.
ToleranceMonotone ==
    pc = "grouped" =>
        \A t \in Tolerances :
            t <= line_tol => Len(lines) <= Len(group_words_into_lines(words, t))

\* a cluster whose running mean has drifted (its last word is further than
\* line_tol from its first), where a smaller tolerance gives more clusters
ToleranceMonotoneWitness ==
    /\ pc = "grouped"
    /\ \E k \in 1..Len(lines) :
          lines[k][Len(lines[k])].top - lines[k][1].top > line_tol
    /\ \E t \in Tolerances :
          t < line_tol /\ Len(group_words_into_lines(words, t)) > Len(lines)

\* the cluster that holds position p of the concatenated clusters
ClusterOf(ls, p) ==
    CHOOSE k \in 1..Len(ls) :
        /\ Len(Flatten(SubSeq(ls, 1, k - 1))) < p
        /\ p <= Len(Flatten(SubSeq(ls, 1, k)))

\* C10: two words adjacent in (top, x0) order whose tops differ by more
\* than line_tol lie in different clusters; two words (of non-empty text)
\* that far apart give two clusters and two reconstructed lines.
AdjacentFarApartSplit ==
    pc = "grouped" =>
        LET s == SortByTopX0(words)
        IN  /\ Flatten(lines) = s
            /\ \A p \in 1..(Len(s) - 1) :
                  s[p + 1].top - s[p].top > line_tol =>
                      ClusterOf(lines, p) # ClusterOf(lines, p + 1)
            /\ (Len(s) = 2 /\ s[2].top - s[1].top > line_tol) =>
                  (Len(lines) = 2 /\ Len(out) = 2)

\* tops 3 points apart with line_tol 2 (the tops 50 and 53 of the example):
\* two clusters
AdjacentFarApartSplitWitness ==
    /\ pc = "grouped"
    /\ line_tol = 2
    /\ Len(words) = 2
    /\ Abs(words[1].top - words[2].top) = 3
    /\ Len(lines) = 2
    /\ Len(out) = 2

(***************************************************************************)
(* Extraction of one page: words with empty or non-empty text, side by     *)
(* side or overlapping, on one or two lines.                               *)
(***************************************************************************)
PageWords ==
    {Word(t, x, x + 1, tp, <<tp + 10>>, <<>>) :
        t \in {<<>>, <<"a">>}, x \in {0, 2}, tp \in {0, 3}}

InitExtract ==
    /\ pc = "start"
    /\ words \in SeqUpTo(PageWords, MaxWords)
    /\ Idle

ExtractPage ==
    /\ pc = "start"
    /\ \E tol \in {2, 3}, su \in SpaceUnits, ms \in MinSpaces :
          /\ line_tol' = tol
          /\ space_unit_pts' = su
          /\ min_spaces' = ms
          /\ lines' = group_words_into_lines(words, tol)
          /\ out' = PageLines(words, tol, su, ms)
    /\ pc' = "extracted"
    /\ UNCHANGED <<words, built, mode, pages, handles, pages_lines, log>>

SpecExtract == InitExtract /\ [][ExtractPage]_vars

AllTextsEmpty(cluster) == \A i \in 1..Len(cluster) : cluster[i].text = <<>>

\* C5: no emitted line is empty or all whitespace, and the clusters whose
\* words all have empty text account for no emitted line.
BlankLinesDropped ==
    pc = "extracted" =>
        /\ \A k \in 1..Len(out) :
              \E c \in 1..Len(out[k].text) : out[k].text[c] # " "
        /\ Len(out) <=
              Cardinality({k \in 1..Len(lines) : ~AllTextsEmpty(lines[k])})

\* two clusters; one has two words of empty text a positive gap apart, so
\* its assembled text is spaces only; only the other cluster's line is
\* emitted
BlankLinesDroppedWitness ==
    /\ pc = "extracted"
    /\ min_spaces >= 1
    /\ Len(lines) = 2
    /\ Len(out) = 1
    /\ \E k \in 1..2 :
          /\ Len(lines[k]) = 2
          /\ AllTextsEmpty(lines[k])
          /\ lines[k][2].x0 > lines[k][1].x1

(***************************************************************************)
(* A run of make_side_by_side or make_overlay_white over a document.       *)
(* Each handle is "none" before it is opened, then "open", then "closed".  *)
(* In make_overlay_white the handle doc is src and there is no out.        *)
(***************************************************************************)
WordA == Word(<<"a">>, 0, 1, 0, <<10>>, <<12>>)
WordB == Word(<<"b">>, 2, 3, 3, <<13>>, <<12>>)
WordE == Word(<<>>, 0, 1, 0, <<10>>, <<12>>)

\* a page without words, with one word, with two words 3 points apart
\* vertically, with one word of empty text
PageChoices == {<<>>, <<WordA>>, <<WordA, WordB>>, <<WordE>>}

Init ==
    /\ pc = "start"
    /\ mode \in {"side_by_side", "overlay_white"}
    /\ pages \in UNION {[1..n -> PageChoices] : n \in 1..MaxPages}
    /\ line_tol \in {2, 3}
    /\ space_unit_pts = DefaultSpaceUnit
    /\ min_spaces = DefaultMinSpaces
    /\ words = <<>> /\ lines = <<>> /\ built = NoBuilt /\ out = <<>>
    /\ handles = NoHandles
    /\ pages_lines = <<>>
    /\ log = <<>>

PageToExtractReversed == Len(pages) - Len(pages_lines)

\* line 135: for page in pdf.pages
PageToExtract == Len(pages_lines) + 1

\* lines 180, 229: enumerate(...) has yielded this many pages
Rendered == Len(SelectSeq(log, LAMBDA e : e[1] = "render"))

\* lines 170, 224: fitz.open(input_pdf)
OpenSrc ==
    /\ pc = "start"
    /\ handles' = [handles EXCEPT !.src = "open"]
    /\ pc' = IF mode = "side_by_side" THEN "src_open" ELSE "opened"
    /\ UNCHANGED <<words, line_tol, space_unit_pts, min_spaces, lines, built,
                   out, mode, pages, pages_lines, log>>

\* line 171: out = fitz.open()
OpenOut ==
    /\ pc = "src_open"
    /\ handles' = [handles EXCEPT !.out = "open"]
    /\ pc' = "opened"
    /\ UNCHANGED <<words, line_tol, space_unit_pts, min_spaces, lines, built,
                   out, mode, pages, pages_lines, log>>

\* line 134: with pdfplumber.open(pdf_path) as pdf
OpenPdf ==
    /\ pc = "opened"
    /\ handles' = [handles EXCEPT !.pdf = "open"]
    /\ pc' = "extracting"
    /\ UNCHANGED <<words, line_tol, space_unit_pts, min_spaces, lines, built,
                   out, mode, pages, pages_lines, log>>

\* lines 135-146: the next page's words are extracted and clustered
ClusterPage ==
    /\ pc = "extracting"
    /\ Len(pages_lines) < Len(pages)
    /\ words' = pages[PageToExtract]
    /\ lines' = group_words_into_lines(words', line_tol)
    /\ log' = Append(log, <<"cluster", PageToExtract>>)
    /\ pc' = "synthesizing"
    /\ UNCHANGED <<line_tol, space_unit_pts, min_spaces, built, out, mode,
                   pages, handles, pages_lines>>

\* lines 148-155: the page's clusters are synthesized, filtered and stored
SynthesizePage ==
    /\ pc = "synthesizing"
    /\ out' = PageLoop(lines, space_unit_pts, min_spaces)
    /\ pages_lines' = Append(pages_lines, out')
    /\ log' = Append(log, <<"synth", PageToExtract>>)
    /\ pc' = "extracting"
    /\ UNCHANGED <<words, line_tol, space_unit_pts, min_spaces, lines, built,
                   mode, pages, handles>>

\* lines 134, 157: the with block is left and closes pdf; pages_lines is
\* returned
ClosePdf ==
    /\ pc = "extracting"
    /\ Len(pages_lines) = Len(pages)
    /\ handles' = [handles EXCEPT !.pdf = "closed"]
    /\ pc' = "rendering"
    /\ UNCHANGED <<words, line_tol, space_unit_pts, min_spaces, lines, built,
                   out, mode, pages, pages_lines, log>>

\* lines 180-208, 229-241: one page is embedded (side by side) and its
\* lines are drawn
RenderPage ==
    /\ pc = "rendering"
    /\ Rendered < Len(pages)
    /\ log' = Append(log, <<"render", Rendered + 1>>)
    /\ UNCHANGED <<pc, words, line_tol, space_unit_pts, min_spaces, lines,
                   built, out, mode, pages, handles, pages_lines>>

\* lines 210, 243: save(output_pdf)
Save ==
    /\ pc = "rendering"
    /\ Rendered = Len(pages)
    /\ pc' = "saved"
    /\ UNCHANGED <<words, line_tol, space_unit_pts, min_spaces, lines, built,
                   out, mode, pages, handles, pages_lines, log>>

\* line 211: out.close()
CloseOut ==
    /\ pc = "saved"
    /\ mode = "side_by_side"
    /\ handles' = [handles EXCEPT !.out = "closed"]
    /\ pc' = "out_closed"
    /\ UNCHANGED <<words, line_tol, space_unit_pts, min_spaces, lines, built,
                   out, mode, pages, pages_lines, log>>

\* lines 212, 244: src.close(), doc.close()
CloseSrc ==
    /\ \/ pc = "out_closed"
       \/ pc = "saved" /\ mode = "overlay_white"
    /\ handles' = [handles EXCEPT !.src = "closed"]
    /\ pc' = "done"
    /\ UNCHANGED <<words, line_tol, space_unit_pts, min_spaces, lines, built,
                   out, mode, pages, pages_lines, log>>

\* An error raised by the library: by pdfplumber.open (line 134), by
\* extract_words (line 138), by show_pdf_page, insert_text or save (lines
\* 189, 200, 210, 232, 243).  No function catches it and none has a finally
\* clause; only the with block of line 134 closes its handle on the way out.
Raise ==
    /\ pc \in {"opened", "extracting", "rendering"}
    /\ handles' = IF handles.pdf = "open"
                  THEN [handles EXCEPT !.pdf = "closed"] ELSE handles
    /\ pc' = "raised"
    /\ UNCHANGED <<words, line_tol, space_unit_pts, min_spaces, lines, built,
                   out, mode, pages, pages_lines, log>>

Next ==
    \/ OpenSrc \/ OpenOut \/ OpenPdf \/ ClusterPage \/ SynthesizePage
    \/ ClosePdf \/ RenderPage \/ Save \/ CloseOut \/ CloseSrc \/ Raise

Spec == Init /\ [][Next]_vars

\* C6: when the function has returned or raised, no handle it opened is
\* still open.
HandlesReleasedOnExit ==
    pc \in {"done", "raised"} =>
        \A h \in {"src", "out", "pdf"} : handles[h] # "open"

\* C7 as stated: clustering of page i + 1 begins only after page i has
\* been rendered.
PageRenderedBeforeNextClustered ==
    \A k \in 1..Len(log) :
        (log[k][1] = "cluster" /\ log[k][2] > 1) =>
            \E j \in 1..(k - 1) : log[j] = <<"render", log[k][2] - 1>>

\* the stages of a run over n pages: clustering and synthesis of page 1,
\* of page 2, ..., of page n, then rendering of page 1, ..., of page n
TwoPassOrder(n) ==
    [k \in 1..(3 * n) |->
        IF k > 2 * n THEN <<"render", k - 2 * n>>
        ELSE IF k % 2 = 1 THEN <<"cluster", (k + 1) \div 2>>
        ELSE <<"synth", k \div 2>>]

\* C7 amended: every page is clustered and then synthesized, in document
\* order, before any page is rendered; the pages are then rendered in
\* document order.
ExtractAllThenRenderAll ==
    /\ Len(log) <= 3 * Len(pages)
    /\ log = SubSeq(TwoPassOrder(Len(pages)), 1, Len(log))

\* a finished run over two pages
ExtractAllThenRenderAllWitness ==
    /\ pc = "done"
    /\ Len(pages) = 2
    /\ Len(log) = 6

====
